---- MODULE Spec2Model ----
(***************************************************************************)
(* udpcount: a passive UDP traffic-rate monitor (src/udpcount.cpp).        *)
(*                                                                         *)
(* The module models the metrics class, the reporter (runner::show_stats), *)
(* the PF_PACKET ring-buffer backend (pfpacket_runner: setup, one worker   *)
(* per CPU, the block hand-over with the kernel, the reporting loop), the  *)
(* libpcap backend's loop (pcap_runner) and the socket backend's handlers  *)
(* (socket_runner).                                                        *)
(*                                                                         *)
(* Every shared-memory access of a thread is one step: a load or store of  *)
(* a std::atomic counter, a read or write of a block's status word.  The   *)
(* interleaving is sequentially consistent.  Thread-local computation is   *)
(* folded into the step of the shared access that precedes it.  SpecOrder  *)
(* alone lets the accesses of the worker's loop be reordered.              *)
(***************************************************************************)
EXTENDS Integers, Sequences, FiniteSets, TLC

(***************************************************************************)
(* Bounds of the model.                                                    *)
(***************************************************************************)
\* std::thread::hardware_concurrency(): the number of workers.
NumThreads == 2
\* ring_req.tp_block_nr is 1 << 6 in the program; the model keeps fewer blocks.
BlockNr == 2
\* Calls of pcap_next_ex in one run of the libpcap backend.
MaxPolls == 3
\* Events of the environment in one run of the ring-buffer backend: blocks the
\* kernel hands over (on all rings) plus expiries of the reporter's deadline.
MaxEvents == 3

(***************************************************************************)
(* Program constants.                                                      *)
(***************************************************************************)
\* <linux/if_packet.h>: block_status values and bits.
TP_STATUS_KERNEL == 0
TP_STATUS_USER == 1
TP_STATUS_BLK_TMO == 32
\* <linux/if_ether.h>
ETH_HLEN == 14
ETH_P_IP == 2048
ETH_P_ARP == 2054
\* sizeof(iphdr), sizeof(udphdr)
SizeofIphdr == 20
SizeofUdphdr == 8

Threads == 0 .. (NumThreads - 1)
Blocks == 0 .. (BlockNr - 1)

(***************************************************************************)
(* class metrics<T>                                                        *)
(***************************************************************************)
Fields == {"packets", "bytes", "total_packets", "total_bytes", "truncated", "errors"}

\* metrics::metrics(): every counter starts at 0.
ZeroMetrics == [f \in Fields |-> 0]

BoolToInt(b) == IF b THEN 1 ELSE 0

\* metrics::add_packet(bytes_transferred, is_truncated).  bytes_transferred is
\* the value the caller's size_t holds, read as the signed 64-bit number that
\* adding it to an int64_t counter adds (addition modulo 2^64).
add_packet(m, bytes_transferred, is_truncated) ==
    [m EXCEPT !["truncated"] = @ + BoolToInt(is_truncated),
              !["packets"] = @ + 1,
              !["total_packets"] = @ + 1,
              !["bytes"] = @ + bytes_transferred,
              !["total_bytes"] = @ + bytes_transferred]

\* A faulty variant of add_error: the error is counted as an empty packet.
add_errorAsPacket(m) == add_packet(m, 0, FALSE)

\* metrics::add_error()
add_error(m) == [m EXCEPT !["errors"] = @ + 1]

\* The order in which operator+= adds the fields.
MergeOrder == <<"packets", "bytes", "total_packets", "total_bytes", "truncated", "errors">>

\* Faulty variants of a statement of operator+=: = for +=, and other.packets
\* added to every field.
MergeFieldAssign(target, other, f) == [target EXCEPT ![f] = other[f]]

MergeFieldPackets(target, other, f) == [target EXCEPT ![f] = @ + other["packets"]]

\* One statement of operator+=: target.f += other.f (a fetch_add when the
\* target's counters are std::atomic).
MergeField(target, other, f) == [target EXCEPT ![f] = @ + other[f]]

RECURSIVE MergeFrom(_, _, _)
MergeFrom(target, other, i) ==
    IF i > Len(MergeOrder) THEN target
    ELSE MergeFrom(MergeField(target, other, MergeOrder[i]), other, i + 1)

\* metrics::operator+=(other), run to completion.
PlusEq(target, other) == MergeFrom(target, other, 1)

\* The order in which metrics::reset zeroes the window counters.
ResetOrder == <<"packets", "bytes", "errors", "truncated">>

\* One statement of metrics::reset: f = 0.
ResetField(m, f) == [m EXCEPT ![f] = 0]

RECURSIVE ResetFrom(_, _)
ResetFrom(m, i) ==
    IF i > Len(ResetOrder) THEN m
    ELSE ResetFrom(ResetField(m, ResetOrder[i]), i + 1)

\* metrics::reset(), run to completion.
reset(m) == ResetFrom(m, 1)

\* The order in which metrics::show_stats reads the counters (left to right in
\* the output expression).
ShowOrder == <<"total_packets", "packets", "total_bytes", "bytes", "errors", "truncated">>

(***************************************************************************)
(* The ring: frames and blocks the kernel delivers.                        *)
(***************************************************************************)
\* A frame as its tpacket3_hdr and Ethernet header show it: wire length tp_len,
\* captured length tp_snaplen, protocol h_proto.  Every frame carries a whole
\* Ethernet header (tp_len >= ETH_HLEN), so the 32-bit subtraction
\* tp_len - ETH_HLEN does not wrap.
Frame(proto, len, snaplen) == [h_proto |-> proto, tp_len |-> len, tp_snaplen |-> snaplen]

\* The blocks the kernel may hand over: a block's packets and its status word.
BlockMenu ==
    { [pkts |-> <<Frame(ETH_P_IP, 60, 60), Frame(ETH_P_IP, 1500, 1500), Frame(ETH_P_IP, 9000, 2048)>>,
       status |-> TP_STATUS_USER],
      [pkts |-> <<Frame(ETH_P_ARP, 60, 60), Frame(ETH_P_IP, 34, 34)>>,
       status |-> TP_STATUS_USER],
      [pkts |-> <<>>,
       status |-> TP_STATUS_USER + TP_STATUS_BLK_TMO] }

\* A faulty variant of the flag test: the block is taken without it.
UserAlways(status) == TRUE

\* block_desc->hdr.bh1.block_status & TP_STATUS_USER (bit 0 of the word).
UserOwned(status) == (status % 2) = 1

\* A faulty variant of the credit: the captured length for the wire length.
CreditedSnap(header) == header.tp_snaplen - ETH_HLEN - SizeofIphdr - SizeofUdphdr

\* The bytes process_packet credits for an IPv4 frame:
\* header->tp_len - ETH_HLEN - sizeof(iphdr) - sizeof(udphdr).  tp_len - ETH_HLEN
\* is unsigned 32-bit; the two sizeof subtractions are size_t arithmetic modulo
\* 2^64, and the result is added to an int64_t: as a signed 64-bit number it is
\* the difference below, negative when tp_len < 42.
Credited(header) == (header.tp_len - ETH_HLEN) - SizeofIphdr - SizeofUdphdr

\* What a block's packets come to: its IPv4 frames and the bytes credited for
\* them (for the history variable merged).
RECURSIVE BlockIPv4(_)
BlockIPv4(pkts) ==
    IF pkts = <<>> THEN 0
    ELSE BoolToInt(Head(pkts).h_proto = ETH_P_IP) + BlockIPv4(Tail(pkts))

RECURSIVE BlockCredited(_)
BlockCredited(pkts) ==
    IF pkts = <<>> THEN 0
    ELSE (IF Head(pkts).h_proto = ETH_P_IP THEN Credited(Head(pkts)) ELSE 0)
         + BlockCredited(Tail(pkts))

\* A faulty variant of process_packet: a frame that is not IPv4 is an error.
ring_process_packetError(header, lc) ==
    IF header.h_proto = ETH_P_IP
    THEN add_packet(lc, Credited(header), header.tp_snaplen # header.tp_len)
    ELSE add_error(lc)

\* pfpacket_runner::process_packet(header, local_counters)
ring_process_packet(header, lc) ==
    LET truncated == header.tp_snaplen # header.tp_len
    IN IF header.h_proto = ETH_P_IP
       THEN add_packet(lc, Credited(header), truncated)
       ELSE lc

(***************************************************************************)
(* State.                                                                  *)
(***************************************************************************)
VARIABLES
    backend,         \* the runner main constructs: "pfpacket", "pcap" or "socket" ("none": operator+= alone)
    interface,       \* opts.pcap_interface
    mainpc,          \* the main thread's position
    setup_i,         \* pfpacket_runner constructor: index of the thread being prepared
    setup_step,      \* prepare_thread_data: the next system call
    launch_i,        \* pfpacket_runner::run: the next thread to launch
    exit_code,       \* main's return value, -1 while the process runs
    exit_err,        \* the system call whose errno the exception carries
    failed_step,     \* the first system call of the setup that failed ("none": none did)
    fd,              \* thread_data[i].fd
    map_ptr,         \* thread_data[i].map.ptr: "NULL", "mapped" or "MAP_FAILED"
    wpc,             \* run_thread: each worker's position
    futures,         \* pfpacket_runner::run: the exception stored in each worker's std::future
    next_block,      \* run_thread: the cursor
    num_packets,     \* run_thread: num_pkts read from the block header
    hdr_i,           \* run_thread: the loop index i of the walk
    merge_i,         \* operator+=: the next field to add
    local_counters,  \* run_thread: the thread-local metrics
    block_status,    \* the status word of each block of each ring
    block_pkts,      \* the packets of each block of each ring
    kcur,            \* the kernel's own cursor on each ring
    counters,        \* runner::counters
    now,             \* the local variable now of the reporting loop
    last_stats,      \* runner::last_stats
    rep_i,           \* show_stats / reset: the next field to read or to zero
    fills,           \* blocks handed over so far
    nticks,          \* reports begun so far
    elapsed,         \* show_stats: now - last_stats
    merged,          \* history: the packets and bytes of the blocks whose merge has completed
    shown,           \* history: the sums of the window values read for the lines so far
    clock,           \* the steady clock, in seconds
    pkt_header,      \* pcap_runner::run: <<h>> for the packet h pcap_next_ex delivered last, or <<>>
    npolls,          \* pcap_runner::run: calls of pcap_next_ex so far
    pcap_status,     \* pcap_runner::run: status, what pcap_next_ex returned last
    mtest,           \* operator+= alone: its operands and the results of applying it
    packet_size,     \* opts.packet_size
    buffer_size,     \* opts.buffer_size
    poll,            \* opts.poll
    offset,          \* socket_runner::offset
    spc,             \* socket_runner: "idle" in io_service.run, or packet_handler's position
    drain_i,         \* packet_handler: the loop index i
    armed,           \* asynchronous receives the socket has pending
    waits,           \* asynchronous waits the timer has pending
    expires_at,      \* timer.expires_at()
    last_read,       \* history: <<r>> for the last read's source, result and length, or <<>>
    nreads,          \* history: reads completed so far
    ncalls,          \* history: invocations of packet_handler so far
    mem_status,      \* reordering: the status word of each block as memory holds it
    mem_gen,         \* reordering: how many times the kernel has written each block's contents
    mem_handed,      \* reordering: the contents (mem_gen) each block had when last handed over
    mem_kcur,        \* reordering: the kernel's cursor
    ord_block,       \* reordering: run_thread's next_block
    ord_done,        \* reordering: the accesses of the loop's current turn performed so far
    ord_seen         \* reordering: what the loads performed so far have returned

procVars == <<backend, interface, mainpc, setup_i, setup_step, launch_i, exit_code, exit_err,
              failed_step, fd, map_ptr>>
workerVars == <<wpc, futures, next_block, num_packets, hdr_i, merge_i, local_counters>>
ringVars == <<block_status, block_pkts, kcur, fills>>
reportVars == <<now, last_stats, rep_i, nticks, elapsed, shown>>
optVars == <<packet_size, buffer_size, poll>>
sockVars == <<offset, spc, drain_i, armed, waits, expires_at, last_read, nreads, ncalls>>
orderVars == <<mem_status, mem_gen, mem_handed, mem_kcur, ord_block, ord_done, ord_seen>>
otherVars == <<clock, pkt_header, npolls, pcap_status, mtest, optVars, sockVars, orderVars>>
vars == <<procVars, workerVars, ringVars, reportVars, counters, merged, otherVars>>

\* The steady clock's reading when the process starts, in seconds.
StartTime == 5

\* The process is alive: main has not returned and no signal has killed it.
Alive == exit_code = -1 /\ mainpc # "killed"

(***************************************************************************)
(* pfpacket_runner::pfpacket_runner and prepare_thread_data                *)
(***************************************************************************)
SetupSteps == <<"socket", "ioctl", "bind", "fanout", "version", "rx_ring", "mmap">>

\* The system call after step s: ioctl and bind are made only when an
\* interface is named.
NextSetupStep(s) ==
    CASE s = "socket" -> IF interface # "" THEN "ioctl" ELSE "fanout"
      [] s = "ioctl" -> "bind"
      [] s = "bind" -> "fanout"
      [] s = "fanout" -> "version"
      [] s = "version" -> "rx_ring"
      [] s = "rx_ring" -> "mmap"
      [] OTHER -> "done"

\* The test the code makes on a system call's result before going on.  mmap
\* returns MAP_FAILED on failure, never NULL; every other call returns < 0.
MmapResult(ok) == IF ok THEN "mapped" ELSE "MAP_FAILED"

FailureDetected(step, ok) ==
    IF step = "mmap" THEN MmapResult(ok) = "NULL"
    ELSE ~ok

\* throw_errno() in the constructor: the exception unwinds thread_data (each
\* file_descriptor closes its fd, each memory_map unmaps a non-NULL ptr) and
\* main's catch (std::runtime_error &) returns 1.
SetupThrow(step) ==
    /\ mainpc' = "exited"
    /\ exit_code' = 1
    /\ exit_err' = step
    /\ fd' = [i \in Threads |-> IF i = setup_i /\ step = "socket" THEN "none"
                                 ELSE IF i <= setup_i THEN "closed" ELSE fd[i]]
    /\ map_ptr' = [i \in Threads |-> IF map_ptr[i] = "mapped" THEN "unmapped" ELSE map_ptr[i]]
    /\ UNCHANGED <<setup_i, setup_step, launch_i>>

\* One system call of prepare_thread_data(thread_data[setup_i], opts), with
\* its result.
SetupCall(ok) ==
    /\ backend = "pfpacket" /\ Alive /\ mainpc = "setup"
    /\ failed_step' = IF ~ok /\ failed_step = "none" THEN setup_step ELSE failed_step
    /\ IF FailureDetected(setup_step, ok)
       THEN SetupThrow(setup_step)
       ELSE /\ fd' = IF setup_step = "socket" THEN [fd EXCEPT ![setup_i] = "open"] ELSE fd
            /\ map_ptr' = IF setup_step = "mmap"
                          THEN [map_ptr EXCEPT ![setup_i] = MmapResult(ok)]
                          ELSE map_ptr
            /\ IF NextSetupStep(setup_step) # "done"
               THEN /\ setup_step' = NextSetupStep(setup_step)
                    /\ UNCHANGED <<setup_i, mainpc, launch_i>>
               ELSE IF setup_i + 1 < NumThreads
               THEN /\ setup_i' = setup_i + 1
                    /\ setup_step' = "socket"
                    /\ UNCHANGED <<mainpc, launch_i>>
               ELSE /\ mainpc' = "launch"
                    /\ launch_i' = 0
                    /\ UNCHANGED <<setup_i, setup_step>>
            /\ UNCHANGED <<exit_code, exit_err>>
    /\ UNCHANGED <<backend, interface, workerVars, ringVars, reportVars, counters, merged, otherVars>>

Setup == \E ok \in BOOLEAN : SetupCall(ok)

(***************************************************************************)
(* pfpacket_runner::run: launching the workers                             *)
(***************************************************************************)
\* One turn of the launch loop: std::async(std::launch::async, call) starts
\* run_thread(thread_data[launch_i], launch_i).  After the last launch the
\* main thread reads the clock into now.
Launch ==
    /\ backend = "pfpacket" /\ Alive /\ mainpc = "launch"
    /\ wpc' = [wpc EXCEPT ![launch_i] = "start"]
    /\ IF launch_i + 1 < NumThreads
       THEN /\ launch_i' = launch_i + 1
            /\ UNCHANGED <<mainpc, now>>
       ELSE /\ mainpc' = "sleep"
            /\ now' = clock
            /\ UNCHANGED launch_i
    /\ UNCHANGED <<backend, interface, setup_i, setup_step, exit_code, exit_err, failed_step,
                   fd, map_ptr, futures, next_block, num_packets, hdr_i, merge_i,
                   local_counters, ringVars, last_stats, rep_i, nticks, elapsed, shown, counters, merged, otherVars>>

(***************************************************************************)
(* pfpacket_runner::run_thread                                             *)
(***************************************************************************)
\* throw_errno() in a worker: the exception ends the thread and is stored in
\* its std::future, which run() never reads: nothing else happens.
WorkerThrow(w, call) ==
    /\ wpc' = [wpc EXCEPT ![w] = "thrown"]
    /\ futures' = [futures EXCEPT ![w] = call]

\* sched_setaffinity, with its result; then next_block = 0 and the pollfd.
WStart(w, ok) ==
    /\ Alive /\ wpc[w] = "start"
    /\ IF ok
       THEN /\ wpc' = [wpc EXCEPT ![w] = "check"]
            /\ next_block' = [next_block EXCEPT ![w] = 0]
            /\ UNCHANGED futures
       ELSE /\ WorkerThrow(w, "sched_setaffinity")
            /\ UNCHANGED next_block
    /\ UNCHANGED <<procVars, num_packets, hdr_i, merge_i, local_counters, ringVars,
                   reportVars, counters, merged, otherVars>>

\* The acquire fence and the test of the loop
\* while (!(block_desc->hdr.bh1.block_status & TP_STATUS_USER)).
\* With map.ptr = MAP_FAILED the block descriptor lies at address -1: the read
\* faults and SIGSEGV kills the process.
WCheck(w) ==
    /\ Alive /\ wpc[w] = "check"
    /\ IF map_ptr[w] # "mapped"
       THEN /\ mainpc' = "killed"
            /\ UNCHANGED wpc
       ELSE /\ wpc' = [wpc EXCEPT ![w] =
                         IF UserOwned(block_status[w][next_block[w]]) THEN "read" ELSE "poll"]
            /\ UNCHANGED mainpc
    /\ UNCHANGED <<backend, interface, setup_i, setup_step, launch_i, exit_code, exit_err,
                   failed_step, fd, map_ptr, futures, next_block, num_packets, hdr_i, merge_i,
                   local_counters, ringVars, reportVars, counters, merged, otherVars>>

\* poll(&pfd, 1, -1) returns, with its result; then the loop tests the flag
\* again.
WPoll(w, ok) ==
    /\ Alive /\ wpc[w] = "poll"
    /\ IF ok THEN wpc' = [wpc EXCEPT ![w] = "check"] /\ UNCHANGED futures
       ELSE WorkerThrow(w, "poll")
    /\ UNCHANGED <<procVars, next_block, num_packets, hdr_i, merge_i, local_counters,
                   ringVars, reportVars, counters, merged, otherVars>>

\* A faulty variant of the walk's loop test: the last packet is left out.
AfterWalkShort(i, num) == IF i + 1 < num THEN "walk" ELSE "merge"

\* Where the worker goes once i packets of num are walked (i < num_packets).
AfterWalk(i, num) == IF i < num THEN "walk" ELSE "merge"

\* num_pkts and offset_to_first_pkt are read from the block header and
\* local_counters is constructed.
WReadHeader(w) ==
    /\ Alive /\ wpc[w] = "read"
    /\ LET num == Len(block_pkts[w][next_block[w]])
       IN /\ num_packets' = [num_packets EXCEPT ![w] = num]
          /\ wpc' = [wpc EXCEPT ![w] = AfterWalk(0, num)]
    /\ hdr_i' = [hdr_i EXCEPT ![w] = 0]
    /\ merge_i' = [merge_i EXCEPT ![w] = 1]
    /\ local_counters' = [local_counters EXCEPT ![w] = ZeroMetrics]
    /\ UNCHANGED <<procVars, futures, next_block, ringVars, reportVars, counters, merged, otherVars>>

\* One turn of the walk: process_packet(header, local_counters), then the
\* header moves on by tp_next_offset.
WWalk(w) ==
    /\ Alive /\ wpc[w] = "walk"
    /\ LET header == block_pkts[w][next_block[w]][hdr_i[w] + 1]
       IN local_counters' = [local_counters EXCEPT ![w] = ring_process_packet(header, @)]
    /\ hdr_i' = [hdr_i EXCEPT ![w] = @ + 1]
    /\ wpc' = [wpc EXCEPT ![w] = AfterWalk(hdr_i[w] + 1, num_packets[w])]
    /\ UNCHANGED <<procVars, futures, next_block, num_packets, merge_i, ringVars, reportVars,
                   counters, merged, otherVars>>

\* counters += local_counters, one atomic addition at a time.
WMerge(w) ==
    /\ Alive /\ wpc[w] = "merge"
    /\ counters' = MergeField(counters, local_counters[w], MergeOrder[merge_i[w]])
    /\ IF merge_i[w] < Len(MergeOrder)
       THEN /\ merge_i' = [merge_i EXCEPT ![w] = @ + 1]
            /\ UNCHANGED <<wpc, merged>>
       ELSE /\ wpc' = [wpc EXCEPT ![w] = "release"]
            /\ merged' = [total_packets |-> merged.total_packets
                                             + BlockIPv4(block_pkts[w][next_block[w]]),
                          total_bytes |-> merged.total_bytes
                                           + BlockCredited(block_pkts[w][next_block[w]]),
                          blocks |-> merged.blocks + 1]
            /\ UNCHANGED merge_i
    /\ UNCHANGED <<procVars, futures, next_block, num_packets, hdr_i, local_counters,
                   ringVars, reportVars, otherVars>>

\* The cursor after block b.
NextBlock(b) == IF b + 1 = BlockNr THEN 0 ELSE b + 1

\* block_status = TP_STATUS_KERNEL, the release fence, and the cursor moves on.
WRelease(w) ==
    /\ Alive /\ wpc[w] = "release"
    /\ block_status' = [block_status EXCEPT ![w][next_block[w]] = TP_STATUS_KERNEL]
    /\ next_block' = [next_block EXCEPT ![w] = NextBlock(@)]
    /\ wpc' = [wpc EXCEPT ![w] = "check"]
    /\ UNCHANGED <<procVars, futures, num_packets, hdr_i, merge_i, local_counters,
                   block_pkts, kcur, fills, reportVars, counters, merged, otherVars>>

Worker ==
    \E w \in Threads :
        \/ \E ok \in BOOLEAN : WStart(w, ok)
        \/ WCheck(w)
        \/ \E ok \in BOOLEAN : WPoll(w, ok)
        \/ WReadHeader(w)
        \/ WWalk(w)
        \/ WMerge(w)
        \/ WRelease(w)

(***************************************************************************)
(* The kernel's side of the ring (PACKET_RX_RING, TPACKET_V3)              *)
(***************************************************************************)
\* The kernel's cursor after block b.
KernelNextBlock(b) == IF b + 1 = BlockNr THEN 0 ELSE b + 1

\* The kernel retires the block at its cursor on ring w: it has written the
\* block's packets while the status word read TP_STATUS_KERNEL and now sets
\* TP_STATUS_USER.  It writes no block whose status word has TP_STATUS_USER
\* set: with the next block still user-owned it drops packets.
KernelRetire(w, blk) ==
    /\ backend = "pfpacket" /\ Alive /\ mainpc # "setup"
    /\ fills + nticks < MaxEvents
    /\ block_status[w][kcur[w]] = TP_STATUS_KERNEL
    /\ block_pkts' = [block_pkts EXCEPT ![w][kcur[w]] = blk.pkts]
    /\ block_status' = [block_status EXCEPT ![w][kcur[w]] = blk.status]
    /\ kcur' = [kcur EXCEPT ![w] = KernelNextBlock(@)]
    /\ fills' = fills + 1
    /\ UNCHANGED <<procVars, workerVars, reportVars, counters, merged, otherVars>>

Kernel == \E w \in Threads, blk \in BlockMenu : KernelRetire(w, blk)

(***************************************************************************)
(* pfpacket_runner::run: the reporting loop, and runner::show_stats        *)
(***************************************************************************)
\* The window counters: those metrics::reset zeroes.
WindowFields == {"packets", "bytes", "errors", "truncated"}

\* A faulty variant of the next deadline: a second after the tick finished.
NextDeadlineDrift(deadline, finished) == finished + 1

\* The deadline after deadline, at a tick that is served when the clock reads
\* finished: now += std::chrono::seconds(1) in pfpacket_runner::run,
\* timer.expires_at() + std::chrono::seconds(1) in socket_runner::timer_handler.
NextDeadline(deadline, finished) == deadline + 1

\* The seconds by which the reporting thread may be late at a tick: the time
\* show_stats takes and the time the thread waits for a CPU after its sleep.
Lateness == {0, 2}

\* The later of two clock readings.
Later(a, b) == IF a >= b THEN a ELSE b

\* now += seconds(1); sleep_until(now), which returns when the clock has
\* reached now, at once when it already has, and the thread runs late
\* seconds after that; show_stats(now) begins: elapsed = now - last_stats.
RTick(late) ==
    /\ backend = "pfpacket" /\ Alive /\ mainpc = "sleep"
    /\ fills + nticks < MaxEvents
    /\ nticks' = nticks + 1
    /\ now' = NextDeadline(now, clock)
    /\ clock' = Later(clock, NextDeadline(now, clock)) + late
    /\ elapsed' = NextDeadline(now, clock) - last_stats
    /\ mainpc' = "show"
    /\ rep_i' = 1
    /\ UNCHANGED <<backend, interface, setup_i, setup_step, launch_i, exit_code, exit_err,
                   failed_step, fd, map_ptr, workerVars, ringVars, last_stats,
                   shown, counters, merged, pkt_header, npolls, pcap_status, mtest, optVars,
                   sockVars, orderVars>>

\* What reading counter f for the line adds to the sums shown so far.
ShowField(sh, m, f) == IF f \in WindowFields THEN [sh EXCEPT ![f] = @ + m[f]] ELSE sh

\* counters.show_stats(elapsed): one atomic load at a time, each value written
\* to the output stream.
RShow ==
    /\ backend = "pfpacket" /\ Alive /\ mainpc = "show"
    /\ shown' = ShowField(shown, counters, ShowOrder[rep_i])
    /\ IF rep_i < Len(ShowOrder)
       THEN /\ rep_i' = rep_i + 1
            /\ UNCHANGED mainpc
       ELSE /\ rep_i' = 1
            /\ mainpc' = "reset"
    /\ UNCHANGED <<backend, interface, setup_i, setup_step, launch_i, exit_code, exit_err,
                   failed_step, fd, map_ptr, workerVars, ringVars, now, last_stats, nticks,
                   elapsed, counters, merged, otherVars>>

\* counters.reset(): one atomic store at a time; then last_stats = now.
RReset ==
    /\ backend = "pfpacket" /\ Alive /\ mainpc = "reset"
    /\ counters' = ResetField(counters, ResetOrder[rep_i])
    /\ IF rep_i < Len(ResetOrder)
       THEN /\ rep_i' = rep_i + 1
            /\ UNCHANGED <<mainpc, last_stats>>
       ELSE /\ rep_i' = 1
            /\ mainpc' = "sleep"
            /\ last_stats' = now
    /\ UNCHANGED <<backend, interface, setup_i, setup_step, launch_i, exit_code, exit_err,
                   failed_step, fd, map_ptr, workerVars, ringVars, now, nticks, elapsed, shown,
                   merged, otherVars>>

Reporter == (\E late \in Lateness : RTick(late)) \/ RShow \/ RReset

(***************************************************************************)
(* Initial states and specifications.                                      *)
(***************************************************************************)
\* The state after main has parsed its options, before the runner is built.
\* runner::last_stats is a default-constructed time_point: the clock's epoch.
InitCommon ==
    /\ mainpc = "setup"
    /\ setup_i = 0 /\ setup_step = "socket" /\ launch_i = 0
    /\ exit_code = -1 /\ exit_err = "none" /\ failed_step = "none"
    /\ fd = [i \in Threads |-> "none"]
    /\ map_ptr = [i \in Threads |-> "NULL"]
    /\ wpc = [i \in Threads |-> "idle"]
    /\ futures = [i \in Threads |-> "none"]
    /\ next_block = [i \in Threads |-> 0]
    /\ num_packets = [i \in Threads |-> 0]
    /\ hdr_i = [i \in Threads |-> 0]
    /\ merge_i = [i \in Threads |-> 1]
    /\ local_counters = [i \in Threads |-> ZeroMetrics]
    /\ block_status = [i \in Threads |-> [b \in Blocks |-> TP_STATUS_KERNEL]]
    /\ block_pkts = [i \in Threads |-> [b \in Blocks |-> <<>>]]
    /\ kcur = [i \in Threads |-> 0]
    /\ fills = 0
    /\ counters = ZeroMetrics
    /\ now = 0 /\ last_stats = 0 /\ rep_i = 1
    /\ nticks = 0 /\ elapsed = 0
    /\ shown = [packets |-> 0, bytes |-> 0, errors |-> 0, truncated |-> 0]
    /\ merged = [total_packets |-> 0, total_bytes |-> 0, blocks |-> 0]
    /\ clock = StartTime
    /\ pkt_header = <<>>
    /\ npolls = 0 /\ pcap_status = 0
    /\ offset = 0 /\ spc = "idle" /\ drain_i = 0
    /\ armed = 0 /\ waits = 0 /\ expires_at = 0
    /\ last_read = <<>> /\ nreads = 0 /\ ncalls = 0
    /\ mem_status = [b \in Blocks |-> TP_STATUS_KERNEL]
    /\ mem_gen = [b \in Blocks |-> 0]
    /\ mem_handed = [b \in Blocks |-> 0]
    /\ mem_kcur = 0 /\ ord_block = 0
    /\ ord_done = {}
    /\ ord_seen = [status |-> <<>>, num_pkts |-> <<>>, packets |-> <<>>]

\* struct options: the defaults of the options the backend does not read.
DefaultOpts == packet_size = 16384 /\ buffer_size = 0 /\ poll = 0

\* main with --pfpacket, with or without --interface.
Init ==
    /\ backend = "pfpacket"
    /\ interface \in {"", "eth0"}
    /\ InitCommon
    /\ DefaultOpts
    /\ mtest = <<>>

Next == Setup \/ Launch \/ Worker \/ Kernel \/ Reporter

Spec == Init /\ [][Next]_vars

(***************************************************************************)
(* The ring-buffer backend with workers that are scheduled fairly and      *)
(* whose poll does not fail.                                               *)
(***************************************************************************)
\* The steps of worker w when poll(&pfd, 1, -1) never returns -1.
WorkerLive(w) ==
    \/ \E ok \in BOOLEAN : WStart(w, ok)
    \/ WCheck(w)
    \/ WPoll(w, TRUE)
    \/ WReadHeader(w)
    \/ WWalk(w)
    \/ WMerge(w)
    \/ WRelease(w)

NextLive == Setup \/ Launch \/ (\E w \in Threads : WorkerLive(w)) \/ Kernel \/ Reporter

\* Every worker thread that can take a step eventually takes one.
SpecLive == Init /\ [][NextLive]_vars /\ \A w \in Threads : WF_vars(WorkerLive(w))

(***************************************************************************)
(* pcap_runner                                                             *)
(***************************************************************************)
\* A delivered packet: pcap_pkthdr's len (wire length) and caplen (captured
\* length), and the first byte of the IPv4 header (version and IHL nibbles).
PcapPackets ==
    { [len |-> l, caplen |-> c, ip0 |-> b] :
        l \in {60, 100}, c \in {14, 41, 60, 64, 100}, b \in {69, 70, 79} }

PcapDelivered == { p \in PcapPackets : p.caplen <= p.len }

\* A faulty variant of the header length: 20 bytes whatever the IHL.
PcapIpHsizeFixed(ip0) == 20

\* (bytes[0] & 0xf) * 4
PcapIpHsize(ip0) == (ip0 % 16) * 4

\* pcap_runner::process_packet(h, bytes)
pcap_process_packet(h, m) ==
    LET eth_hsize == 14
        len == h.caplen
        truncated == h.len # len
        ip_hsize == PcapIpHsize(h.ip0)
        udp_hsize == 8
    IN IF len > eth_hsize /\ (len - eth_hsize) >= ip_hsize + udp_hsize
       THEN add_packet(m, (len - eth_hsize) - (ip_hsize + udp_hsize), truncated)
       ELSE m

\* The calls of pcap_runner's constructor that can fail.
PcapSetupCalls == {"pcap_create", "pcap_set_snaplen", "pcap_set_buffer_size", "pcap_set_timeout",
                   "pcap_activate", "pcap_set_datalink", "pcap_setdirection", "pcap_compile",
                   "pcap_setfilter"}

\* pcap_runner::pcap_runner(opts): every call succeeds (failed = "none") or
\* one throws std::runtime_error, which main catches to return 1.
PcapOpen(failed) ==
    /\ backend = "pcap" /\ Alive /\ mainpc = "setup"
    /\ IF failed = "none"
       THEN /\ mainpc' = "pcap_next"
            /\ UNCHANGED <<exit_code, exit_err, failed_step>>
       ELSE /\ mainpc' = "exited"
            /\ exit_code' = 1
            /\ exit_err' = failed
            /\ failed_step' = failed
    /\ UNCHANGED <<backend, interface, setup_i, setup_step, launch_i, fd, map_ptr, workerVars,
                   ringVars, reportVars, counters, merged, otherVars>>

\* A faulty variant of the switch: a value it does not know is a timeout.
PcapSwitchLenient(st) ==
    CASE st = 1 -> "packet"
      [] st = -1 -> "error"
      [] OTHER -> "timeout"

\* switch (status) in run(): the case taken.
PcapSwitch(st) ==
    CASE st = 1 -> "packet"
      [] st = 0 -> "timeout"
      [] st = -1 -> "error"
      [] OTHER -> "default"

\* The first half of a turn of run()'s loop: pcap_next_ex returns st, and
\* with 1 the packet h, which process_packet counts.
PcapNext(st, h) ==
    /\ backend = "pcap" /\ Alive /\ mainpc = "pcap_next"
    /\ npolls < MaxPolls
    /\ npolls' = npolls + 1
    /\ pcap_status' = st
    /\ CASE PcapSwitch(st) = "packet" ->
              /\ counters' = pcap_process_packet(h, counters)
              /\ pkt_header' = <<h>>
              /\ mainpc' = "pcap_stats"
              /\ UNCHANGED <<exit_code, exit_err>>
         [] PcapSwitch(st) = "timeout" ->
              /\ pkt_header' = <<>>
              /\ mainpc' = "pcap_stats"
              /\ UNCHANGED <<counters, exit_code, exit_err>>
         [] OTHER ->
              /\ mainpc' = "exited"
              /\ exit_code' = 1
              /\ exit_err' = IF PcapSwitch(st) = "error" THEN "pcap_geterr"
                             ELSE "unexpected return from pcap_next_ex"
              /\ pkt_header' = <<>>
              /\ UNCHANGED counters
    /\ UNCHANGED <<backend, interface, setup_i, setup_step, launch_i, failed_step, fd, map_ptr,
                   workerVars, ringVars, reportVars, merged, clock, mtest, optVars, sockVars, orderVars>>

\* The sums shown so far after a line that shows m's window counters
\* (counters.show_stats on one thread).
ShowAll(sh, m) == [f \in WindowFields |-> sh[f] + m[f]]

\* The second half of the turn: now = steady_clock::now(), dt seconds after the
\* previous reading, and show_stats(now) once a second or more has passed
\* since last_stats.
PcapStats(dt) ==
    /\ backend = "pcap" /\ Alive /\ mainpc = "pcap_stats"
    /\ clock' = clock + dt
    /\ now' = clock + dt
    /\ IF (clock + dt) - last_stats >= 1
       THEN /\ elapsed' = (clock + dt) - last_stats
            /\ shown' = ShowAll(shown, counters)
            /\ counters' = reset(counters)
            /\ last_stats' = clock + dt
            /\ nticks' = nticks + 1
       ELSE UNCHANGED <<elapsed, shown, counters, last_stats, nticks>>
    /\ mainpc' = "pcap_next"
    /\ UNCHANGED <<backend, interface, setup_i, setup_step, launch_i, exit_code, exit_err,
                   failed_step, fd, map_ptr, workerVars, ringVars, rep_i, merged, pkt_header,
                   npolls, pcap_status, mtest, optVars, sockVars, orderVars>>

\* main with --interface and without --pfpacket.
InitPcap ==
    /\ backend = "pcap"
    /\ interface = "eth0"
    /\ InitCommon
    /\ DefaultOpts
    /\ mtest = <<>>

NextPcap ==
    \/ \E failed \in PcapSetupCalls \cup {"none"} : PcapOpen(failed)
    \/ \E st \in {1, 0, -1, -2}, h \in PcapDelivered : PcapNext(st, h)
    \/ \E dt \in {0, 1} : PcapStats(dt)

SpecPcap == InitPcap /\ [][NextPcap]_vars

(***************************************************************************)
(* metrics::operator+= on its own                                          *)
(***************************************************************************)
\* Metrics that sequences of add_packet, add_error and reset produce.
SampleMetrics ==
    { ZeroMetrics,
      add_packet(ZeroMetrics, 58, FALSE),
      add_error(add_packet(add_packet(ZeroMetrics, 18, TRUE), 1458, FALSE)),
      add_error(add_error(add_packet(reset(add_packet(ZeroMetrics, 58, FALSE)), 100, TRUE))) }

\* Operands a and b, a target t, and the results computed so far (<<>>: not
\* computed yet, <<m>>: the target after the merges).
InitMerge ==
    /\ backend = "none"
    /\ interface = ""
    /\ InitCommon
    /\ DefaultOpts
    /\ \E a \in SampleMetrics, b \in SampleMetrics, t \in SampleMetrics :
          mtest = [a |-> a, b |-> b, t |-> t, ab |-> <<>>, ba |-> <<>>,
                   grouped |-> <<>>, zero |-> <<>>]

MergeUnchanged == UNCHANGED <<procVars, workerVars, ringVars, reportVars, counters, merged,
                              clock, pkt_header, npolls, pcap_status, optVars, sockVars, orderVars>>

\* t += a; t += b
MergeAB ==
    /\ backend = "none" /\ mtest.ab = <<>>
    /\ mtest' = [mtest EXCEPT !.ab = <<PlusEq(PlusEq(mtest.t, mtest.a), mtest.b)>>]
    /\ MergeUnchanged

\* t += b; t += a
MergeBA ==
    /\ backend = "none" /\ mtest.ba = <<>>
    /\ mtest' = [mtest EXCEPT !.ba = <<PlusEq(PlusEq(mtest.t, mtest.b), mtest.a)>>]
    /\ MergeUnchanged

\* a += b; t += a
MergeGrouped ==
    /\ backend = "none" /\ mtest.grouped = <<>>
    /\ mtest' = [mtest EXCEPT !.grouped = <<PlusEq(mtest.t, PlusEq(mtest.a, mtest.b))>>]
    /\ MergeUnchanged

\* t += metrics()
MergeZero ==
    /\ backend = "none" /\ mtest.zero = <<>>
    /\ mtest' = [mtest EXCEPT !.zero = <<PlusEq(mtest.t, ZeroMetrics)>>]
    /\ MergeUnchanged

NextMerge == MergeAB \/ MergeBA \/ MergeGrouped \/ MergeZero

SpecMerge == InitMerge /\ [][NextMerge]_vars

(***************************************************************************)
(* socket_runner                                                           *)
(***************************************************************************)
\* Invocations of packet_handler in one run of the socket backend.
MaxHandlerCalls == 2
\* Seconds the steady clock advances in one run of the socket backend.
MaxSeconds == 2

\* The options the runs are made with.
PacketSizes == {64, 100}
BufferSizes == {0, 128, 300}
PollCounts == {0, 2}

\* The lengths a read into asio::buffer(buffer.data() + offset, packet_size)
\* can return: 0 to packet_size.
ReadLengths(ps) == { n \in {0, 1, 64, 65, 100} : n <= ps }

\* buffer.size(): the vector is built with std::max(opts.packet_size, opts.buffer_size).
BufferSize(ps, bs) == IF ps >= bs THEN ps ELSE bs

\* A faulty variant of the truncation test: never truncated.
SockTruncatedNever(bytes_transferred, ps) == bytes_transferred > ps

\* update_counters: bytes_transferred == packet_size
SockTruncated(bytes_transferred, ps) == bytes_transferred = ps

\* A faulty variant of the offset's update: no rounding to the cache line.
AdvanceOffsetUnaligned(off, bytes_transferred, ps, size) ==
    LET o1 == off + bytes_transferred
    IN IF o1 >= size - ps THEN 0 ELSE o1

\* update_counters: offset += bytes_transferred; offset = (offset + 63) & ~63;
\* if (offset >= buffer.size() - packet_size) offset = 0.  buffer.size() is at
\* least packet_size, so the size_t difference does not wrap.
AdvanceOffset(off, bytes_transferred, ps, size) ==
    LET o1 == off + bytes_transferred
        o2 == ((o1 + 63) \div 64) * 64
    IN IF o2 >= size - ps THEN 0 ELSE o2

\* socket_runner::update_counters(bytes_transferred)
SockUpdateCounters(bytes_transferred) ==
    /\ counters' = add_packet(counters, bytes_transferred,
                              SockTruncated(bytes_transferred, packet_size))
    /\ offset' = AdvanceOffset(offset, bytes_transferred, packet_size,
                               BufferSize(packet_size, buffer_size))

\* A faulty variant of the drain loop's test: one read too many.
DrainMoreInclusive(i, p) == i <= p

\* The drain loop's test: i < poll.
DrainMore(i, p) == i < p

\* What the socket actions leave alone.
SockUnchanged == UNCHANGED <<backend, interface, setup_i, setup_step, launch_i, failed_step, fd,
                             map_ptr, workerVars, ringVars, rep_i, merged, pkt_header, npolls,
                             pcap_status, mtest, optVars, orderVars>>

\* socket_runner::socket_runner(opts): resolve, open and bind throw
\* boost::system::system_error (a std::runtime_error, so main returns 1); then
\* the timer is set to expire one second from now and one wait and one
\* receive are enqueued.
SockOpen(ok) ==
    /\ backend = "socket" /\ Alive /\ mainpc = "setup"
    /\ IF ok
       THEN /\ mainpc' = "run"
            /\ expires_at' = clock + 1
            /\ waits' = 1
            /\ armed' = 1
            /\ UNCHANGED <<exit_code, exit_err>>
       ELSE /\ mainpc' = "exited"
            /\ exit_code' = 1
            /\ exit_err' = "socket"
            /\ UNCHANGED <<expires_at, waits, armed>>
    /\ UNCHANGED <<offset, spc, drain_i, last_read, nreads, ncalls, counters, now, last_stats,
                   nticks, elapsed, shown, clock>>
    /\ SockUnchanged

\* The asynchronous receive completes and io_service.run calls
\* packet_handler(error, bytes_transferred): the first statement, and the
\* loop's first test.
SockAsyncComplete(error, bytes_transferred) ==
    /\ backend = "socket" /\ Alive /\ mainpc = "run" /\ spc = "idle"
    /\ armed > 0
    /\ ncalls < MaxHandlerCalls
    /\ ncalls' = ncalls + 1
    /\ armed' = armed - 1
    /\ IF error
       THEN counters' = add_error(counters) /\ UNCHANGED offset
       ELSE SockUpdateCounters(bytes_transferred)
    /\ last_read' = <<[src |-> "async", ec |-> IF error THEN "error" ELSE "ok",
                       n |-> IF error THEN 0 ELSE bytes_transferred]>>
    /\ nreads' = nreads + 1
    /\ drain_i' = 0
    /\ spc' = IF DrainMore(0, poll) THEN "drain" ELSE "rearm"
    /\ UNCHANGED <<mainpc, exit_code, exit_err, waits, expires_at, now, last_stats, nticks,
                   elapsed, shown, clock>>
    /\ SockUnchanged

\* One turn of the drain loop: socket.receive_from returns ec and
\* bytes_transferred.
SockDrainRead(ec, bytes_transferred) ==
    /\ backend = "socket" /\ Alive /\ mainpc = "run" /\ spc = "drain"
    /\ last_read' = <<[src |-> "drain", ec |-> ec,
                       n |-> IF ec = "ok" THEN bytes_transferred ELSE 0]>>
    /\ nreads' = nreads + 1
    /\ CASE ec = "would_block" ->
              /\ spc' = "rearm"
              /\ UNCHANGED <<counters, offset, drain_i>>
         [] ec = "error" ->
              /\ counters' = add_error(counters)
              /\ drain_i' = drain_i + 1
              /\ spc' = IF DrainMore(drain_i + 1, poll) THEN "drain" ELSE "rearm"
              /\ UNCHANGED offset
         [] OTHER ->
              /\ SockUpdateCounters(bytes_transferred)
              /\ drain_i' = drain_i + 1
              /\ spc' = IF DrainMore(drain_i + 1, poll) THEN "drain" ELSE "rearm"
    /\ UNCHANGED <<mainpc, exit_code, exit_err, armed, waits, expires_at, ncalls, now,
                   last_stats, nticks, elapsed, shown, clock>>
    /\ SockUnchanged

\* enqueue_receive() at the end of packet_handler, which returns.
SockRearm ==
    /\ backend = "socket" /\ Alive /\ mainpc = "run" /\ spc = "rearm"
    /\ armed' = armed + 1
    /\ spc' = "idle"
    /\ UNCHANGED <<mainpc, exit_code, exit_err, offset, drain_i, waits, expires_at, last_read,
                   nreads, ncalls, counters, now, last_stats, nticks, elapsed, shown, clock>>
    /\ SockUnchanged

\* The timer has expired and io_service.run calls timer_handler:
\* now = timer.expires_at(); show_stats(now); the timer is set to expire a
\* second after its last expiry time; enqueue_wait().
SockTimer ==
    /\ backend = "socket" /\ Alive /\ mainpc = "run" /\ spc = "idle"
    /\ waits > 0 /\ clock >= expires_at
    /\ now' = expires_at
    /\ elapsed' = expires_at - last_stats
    /\ shown' = ShowAll(shown, counters)
    /\ counters' = reset(counters)
    /\ last_stats' = expires_at
    /\ nticks' = nticks + 1
    /\ expires_at' = NextDeadline(expires_at, clock)
    /\ waits' = (waits - 1) + 1
    /\ UNCHANGED <<mainpc, exit_code, exit_err, offset, spc, drain_i, armed, last_read, nreads,
                   ncalls, clock>>
    /\ SockUnchanged

\* A second passes on the steady clock.  The backend reads the clock only to
\* dispatch the timer's handler from io_service.run, so the time a handler
\* takes is time that has passed when it returns.
SockTime ==
    /\ backend = "socket" /\ Alive /\ mainpc = "run" /\ spc = "idle"
    /\ clock < StartTime + MaxSeconds
    /\ clock' = clock + 1
    /\ UNCHANGED <<mainpc, exit_code, exit_err, sockVars, counters, now, last_stats, nticks,
                   elapsed, shown>>
    /\ SockUnchanged

\* main without --pfpacket and without --interface.
InitSocket ==
    /\ backend = "socket"
    /\ interface = ""
    /\ InitCommon
    /\ packet_size \in PacketSizes
    /\ buffer_size \in BufferSizes
    /\ poll \in PollCounts
    /\ mtest = <<>>

NextSocket ==
    \/ \E ok \in BOOLEAN : SockOpen(ok)
    \/ \E error \in BOOLEAN, n \in ReadLengths(packet_size) : SockAsyncComplete(error, n)
    \/ \E ec \in {"ok", "error", "would_block"}, n \in ReadLengths(packet_size) :
          SockDrainRead(ec, n)
    \/ SockRearm
    \/ SockTimer
    \/ SockTime

SpecSocket == InitSocket /\ [][NextSocket]_vars

(***************************************************************************)
(* run_thread's loop on one ring when accesses may be reordered            *)
(*                                                                         *)
(* The accesses of one turn of the loop are performed in any order that    *)
(* the fences, the atomic operations and the dependencies between the      *)
(* accesses allow.  A turn ends before the next begins.                    *)
(***************************************************************************)
\* Times the kernel writes the contents of one block.
MaxGen == 2

\* The accesses of one turn of the loop while (true), in program order: the
\* acquire fence (556, 562), the load of block_status (557), the loads of
\* num_pkts and offset_to_first_pkt (565, 567), the loads of the packet
\* headers (569-573), the atomic additions of the merge (574), the store of
\* TP_STATUS_KERNEL (576), the release fence (577).
ProgramOrder == <<"fence_acquire", "load_status", "load_num_pkts", "load_packets", "merge",
                  "store_status", "fence_release">>

\* The loads of the block's contents.
ContentLoads == {"load_num_pkts", "load_packets"}

\* The position of access a in program order.
OrderIndex(a) == CHOOSE i \in 1 .. Len(ProgramOrder) : ProgramOrder[i] = a

\* Access a, earlier in program order than b, is performed before b:
\*  - no access that follows the acquire fence is performed before the fence;
\*  - the release fence is performed after every access that precedes it;
\*  - the packet headers are found with offset_to_first_pkt and counted with
\*    num_pkts, and the merge adds what the walk has computed (data);
\*  - a store is not performed before the branch it depends on is decided:
\*    the merge and the store of the status follow the load of the status;
\*  - the additions of the merge are sequentially consistent read-modify-write
\*    operations: what precedes them is performed before, what follows after.
\* Nothing orders the loads of the contents after the load of the status: the
\* acquire fence precedes both.
OrderedBefore(a, b) ==
    \/ a = "fence_acquire"
    \/ b = "fence_release"
    \/ a = "load_num_pkts" /\ b = "load_packets"
    \/ a = "load_packets" /\ b = "merge"
    \/ a = "load_status" /\ b \in {"merge", "store_status"}
    \/ b = "merge"
    \/ a = "merge"

\* Access op of the current turn can be performed now.
MayPerform(op) ==
    /\ op \notin ord_done
    /\ \A i \in 1 .. (OrderIndex(op) - 1) :
          OrderedBefore(ProgramOrder[i], op) => ProgramOrder[i] \in ord_done

\* The load of the status word has returned a value with TP_STATUS_USER set.
SawUser == ord_seen.status # <<>> /\ UserOwned(ord_seen.status[1])

\* What an action on the ring with reordering leaves alone.
OrderUnchanged == UNCHANGED <<procVars, workerVars, ringVars, reportVars, counters, merged, clock,
                              pkt_header, npolls, pcap_status, mtest, optVars, sockVars>>

\* std::atomic_thread_fence(std::memory_order_acquire)
OAcquireFence ==
    /\ MayPerform("fence_acquire")
    /\ ord_done' = ord_done \cup {"fence_acquire"}
    /\ UNCHANGED <<mem_status, mem_gen, mem_handed, mem_kcur, ord_block, ord_seen>>
    /\ OrderUnchanged

\* The load of block_desc->hdr.bh1.block_status.
OLoadStatus ==
    /\ MayPerform("load_status")
    /\ ord_done' = ord_done \cup {"load_status"}
    /\ ord_seen' = [ord_seen EXCEPT !.status = <<mem_status[ord_block]>>]
    /\ UNCHANGED <<mem_status, mem_gen, mem_handed, mem_kcur, ord_block>>
    /\ OrderUnchanged

\* A load of the block's contents: it returns what memory holds now.
OLoadContent(op, field) ==
    /\ MayPerform(op)
    /\ ord_done' = ord_done \cup {op}
    /\ ord_seen' = [ord_seen EXCEPT ![field] = <<mem_gen[ord_block]>>]
    /\ UNCHANGED <<mem_status, mem_gen, mem_handed, mem_kcur, ord_block>>
    /\ OrderUnchanged

\* The status loaded does not have TP_STATUS_USER: the loop's body runs, poll
\* returns, and the turn starts again from the acquire fence; what the loads
\* of the contents returned ahead of the test is dropped.
OPoll ==
    /\ "load_status" \in ord_done /\ ~SawUser
    /\ ord_done' = {}
    /\ ord_seen' = [status |-> <<>>, num_pkts |-> <<>>, packets |-> <<>>]
    /\ UNCHANGED <<mem_status, mem_gen, mem_handed, mem_kcur, ord_block>>
    /\ OrderUnchanged

\* counters += local_counters
OMerge ==
    /\ MayPerform("merge") /\ SawUser
    /\ ord_done' = ord_done \cup {"merge"}
    /\ UNCHANGED <<mem_status, mem_gen, mem_handed, mem_kcur, ord_block, ord_seen>>
    /\ OrderUnchanged

\* block_desc->hdr.bh1.block_status = TP_STATUS_KERNEL reaches memory.
OStoreStatus ==
    /\ MayPerform("store_status") /\ SawUser
    /\ ord_done' = ord_done \cup {"store_status"}
    /\ mem_status' = [mem_status EXCEPT ![ord_block] = TP_STATUS_KERNEL]
    /\ UNCHANGED <<mem_gen, mem_handed, mem_kcur, ord_block, ord_seen>>
    /\ OrderUnchanged

\* std::atomic_thread_fence(std::memory_order_release), and the cursor moves
\* on: the turn is over.
OReleaseFence ==
    /\ MayPerform("fence_release") /\ SawUser
    /\ ord_done' = {}
    /\ ord_seen' = [status |-> <<>>, num_pkts |-> <<>>, packets |-> <<>>]
    /\ ord_block' = NextBlock(ord_block)
    /\ UNCHANGED <<mem_status, mem_gen, mem_handed, mem_kcur>>
    /\ OrderUnchanged

\* The kernel writes packets and the block header into the block at its
\* cursor, which memory shows as kernel-owned.
OKernelWrite ==
    /\ mem_status[mem_kcur] = TP_STATUS_KERNEL
    /\ mem_gen[mem_kcur] < MaxGen
    /\ mem_gen' = [mem_gen EXCEPT ![mem_kcur] = @ + 1]
    /\ UNCHANGED <<mem_status, mem_handed, mem_kcur, ord_block, ord_done, ord_seen>>
    /\ OrderUnchanged

\* The kernel retires the block it has written: TP_STATUS_USER.
OKernelHandOver ==
    /\ mem_status[mem_kcur] = TP_STATUS_KERNEL
    /\ mem_gen[mem_kcur] > mem_handed[mem_kcur]
    /\ mem_status' = [mem_status EXCEPT ![mem_kcur] = TP_STATUS_USER]
    /\ mem_handed' = [mem_handed EXCEPT ![mem_kcur] = mem_gen[mem_kcur]]
    /\ mem_kcur' = KernelNextBlock(mem_kcur)
    /\ UNCHANGED <<mem_gen, ord_block, ord_done, ord_seen>>
    /\ OrderUnchanged

\* One worker on its ring, past the setup.
InitOrder ==
    /\ backend = "pfpacket"
    /\ interface = ""
    /\ InitCommon
    /\ DefaultOpts
    /\ mtest = <<>>

NextOrder ==
    \/ OAcquireFence
    \/ OLoadStatus
    \/ OLoadContent("load_num_pkts", "num_pkts")
    \/ OLoadContent("load_packets", "packets")
    \/ OPoll
    \/ OMerge
    \/ OStoreStatus
    \/ OReleaseFence
    \/ OKernelWrite
    \/ OKernelHandOver

SpecOrder == InitOrder /\ [][NextOrder]_vars

(***************************************************************************)
(* The backends whose reports a deadline drives: the ring buffer's and the *)
(* socket's.                                                               *)
(***************************************************************************)
\* main with --pfpacket and no --interface, or with neither.
InitTimed == (Init /\ interface = "") \/ InitSocket

NextTimed == Next \/ NextSocket

SpecTimed == InitTimed /\ [][NextTimed]_vars

(***************************************************************************)
(* Properties.                                                             *)
(***************************************************************************)
RECURSIVE SumOver(_, _)
SumOver(f, S) ==
    IF S = {} THEN 0
    ELSE LET x == CHOOSE y \in S : TRUE IN f[x] + SumOver(f, S \ {x})

\* Bit 0 of a status word is set: the block is user-owned.
HasUserBit(status) == (status % 2) = 1

\* C1: a worker reads a block's packet count, first-packet offset and packet
\* headers (positions "read" and "walk") only while the status word of the
\* block at its cursor has TP_STATUS_USER set, whatever the kernel and the
\* other threads have done in between.
C1_ReadsOnlyUserOwned ==
    \A w \in Threads :
        wpc[w] \in {"read", "walk"} => HasUserBit(block_status[w][next_block[w]])

\* C1's case: a worker is in the middle of a block's packets while the kernel
\* has handed over the next block of the same ring.
C1_Witness ==
    \E w \in Threads :
        /\ wpc[w] = "walk" /\ hdr_i[w] = 2
        /\ HasUserBit(block_status[w][NextBlock(next_block[w])])
        /\ kcur[w] = next_block[w]

\* The user-owned blocks of ring w are the ones at and after the worker's
\* cursor, without a gap: no block the cursor has passed is user-owned.
UserBlocksAheadOfCursor(w) ==
    LET n == Cardinality({b \in Blocks : HasUserBit(block_status[w][b])})
    IN \A b \in Blocks :
         HasUserBit(block_status[w][b]) <=> ((b - next_block[w] + BlockNr) % BlockNr) < n

\* C2: a block's status word goes from user-owned to kernel-owned only by the
\* step of its worker that follows the walk of all its packets and the merge,
\* with the cursor on that block; it goes from kernel-owned to user-owned only
\* by a step that is not the worker's; the cursor moves only off a block that
\* the same step has set kernel-owned, and to the next block in cyclic order;
\* and no block the cursor has passed is user-owned.
C2_OwnershipAlternates ==
    [][\A w \in Threads :
         /\ \A b \in Blocks :
              /\ (HasUserBit(block_status[w][b]) /\ ~HasUserBit(block_status'[w][b]))
                   => /\ wpc[w] = "release" /\ next_block[w] = b
                      /\ hdr_i[w] = Len(block_pkts[w][b])
                      /\ merge_i[w] = Len(MergeOrder)
                      /\ block_status'[w][b] = TP_STATUS_KERNEL
              /\ (~HasUserBit(block_status[w][b]) /\ HasUserBit(block_status'[w][b]))
                   => /\ wpc'[w] = wpc[w] /\ next_block'[w] = next_block[w]
                      /\ block_status[w][b] = TP_STATUS_KERNEL
         /\ next_block'[w] # next_block[w]
              => /\ HasUserBit(block_status[w][next_block[w]])
                 /\ block_status'[w][next_block[w]] = TP_STATUS_KERNEL
                 /\ next_block'[w] = (next_block[w] + 1) % BlockNr
         /\ UserBlocksAheadOfCursor(w)'
      ]_vars

\* C2's case: block 0 of a ring has been handed over, returned, handed over
\* again after block 1 was handed over and returned, and its worker is about
\* to return it a second time.
C2_Witness ==
    \E w \in Threads :
        /\ wpc[w] = "release" /\ next_block[w] = 0
        /\ kcur[w] = 1
        /\ block_status[w][1] = TP_STATUS_KERNEL /\ block_pkts[w][1] # <<>>

\* C3: once a worker's poll has failed, the only step the process takes is
\* its exit with code 1: neither the reporter nor a worker goes on.
C3_PollFailureIsFatal ==
    [][(\E w \in Threads : futures[w] = "poll") => exit_code' = 1]_vars

\* C4: once a system call of the setup has failed, startup has been aborted
\* with that call's error: main has returned 1, no worker has been launched
\* and no failed mapping is stored as a worker's ring region.
C4_SetupFailureAborts ==
    failed_step # "none"
        => /\ exit_code = 1 /\ exit_err = failed_step
           /\ \A w \in Threads : wpc[w] = "idle" /\ map_ptr[w] # "MAP_FAILED"

\* C5: no step decreases total_packets or total_bytes; a window counter that
\* is not zero becomes zero only by a step of the report; and the report's
\* steps leave total_packets and total_bytes unchanged.
C5_TotalsNeverDecrease ==
    [][/\ counters'.total_packets >= counters.total_packets
       /\ counters'.total_bytes >= counters.total_bytes
       /\ \A f \in WindowFields :
            (counters[f] # 0 /\ counters'[f] = 0) => mainpc = "reset"
       /\ (mainpc \in {"show", "reset"} /\ (rep_i' # rep_i \/ mainpc' # mainpc))
            => /\ counters'.total_packets = counters.total_packets
               /\ counters'.total_bytes = counters.total_bytes
      ]_vars

\* What worker w has added to shared counter f of the block it is merging,
\* whose merge is not complete: local_counters[w][f] once operator+= has
\* passed f.
InFlight(f) ==
    [w \in Threads |->
        IF wpc[w] = "merge" /\ \E i \in 1 .. (merge_i[w] - 1) : MergeOrder[i] = f
        THEN local_counters[w][f] ELSE 0]

\* C6: the shared total_packets and total_bytes are the sums of the IPv4 frame
\* counts and credited bytes of the blocks whose merge is complete, plus what
\* the merges in progress have added so far; and every block handed over is
\* merged at most once: the merges completed are the hand-overs less the
\* blocks still user-owned and not yet merged.
C6_TotalsAreSumOfMerges ==
    /\ counters.total_packets = merged.total_packets + SumOver(InFlight("total_packets"), Threads)
    /\ counters.total_bytes = merged.total_bytes + SumOver(InFlight("total_bytes"), Threads)
    /\ merged.blocks
         = fills
           - SumOver([w \in Threads |->
                        Cardinality({b \in Blocks : HasUserBit(block_status[w][b])})], Threads)
           + Cardinality({w \in Threads : wpc[w] = "release"})

\* C6's case: two workers are merging a block each at the same time, both part
\* of the way through operator+=, while the reporter is zeroing the window.
C6_Witness ==
    /\ \A w \in Threads : wpc[w] = "merge" /\ merge_i[w] > 3 /\ local_counters[w].packets > 0
    /\ mainpc = "reset"
    /\ counters.total_packets > 0

\* C7: between reports, with no merge in progress, every packet and byte
\* counted in the totals has been shown in the window of a report or is in the
\* current window.
C7_WindowsPartitionTotals ==
    (mainpc = "sleep" /\ \A w \in Threads : wpc[w] # "merge")
        => /\ counters.total_packets = shown.packets + counters.packets
           /\ counters.total_bytes = shown.bytes + counters.bytes

\* The metrics the claim gives for a block: one packet per IPv4 frame,
\* tp_len - 14 - 20 - 8 bytes for each, one truncated per IPv4 frame whose
\* captured length differs from its wire length.
RECURSIVE BlockExpected(_)
BlockExpected(pkts) ==
    IF pkts = <<>> THEN ZeroMetrics
    ELSE LET h == Head(pkts)
             rest == BlockExpected(Tail(pkts))
         IN IF h.h_proto # 2048 THEN rest
            ELSE [packets |-> rest.packets + 1,
                  total_packets |-> rest.total_packets + 1,
                  bytes |-> rest.bytes + (h.tp_len - 14 - 20 - 8),
                  total_bytes |-> rest.total_bytes + (h.tp_len - 14 - 20 - 8),
                  truncated |-> rest.truncated + (IF h.tp_snaplen # h.tp_len THEN 1 ELSE 0),
                  errors |-> 0]

\* C9: when a worker has walked a block, the metrics it merges for the block
\* are those of the block's IPv4 frames: n packets, the sum of
\* (Li - 14 - 20 - 8) bytes, and one truncated per frame with Ci # Li.
C9_BlockMetrics ==
    \A w \in Threads :
        wpc[w] \in {"merge", "release"}
            => local_counters[w] = BlockExpected(block_pkts[w][next_block[w]])

\* C9's case: wire lengths 60, 1500, 9000, the last truncated: 3 packets,
\* 60 + 1500 + 9000 - 3 * 42 bytes, 1 truncated.
C9_Witness ==
    \E w \in Threads :
        /\ wpc[w] = "release"
        /\ Len(block_pkts[w][next_block[w]]) = 3
        /\ local_counters[w].packets = 3
        /\ local_counters[w].bytes = 10434
        /\ local_counters[w].truncated = 1

\* C8: merging a and b into t in either order, or b into a and then a into t,
\* gives the same six counters, and merging a newly constructed metrics
\* leaves t as it was.
C8_MergeCommAssocZero ==
    /\ (mtest.ab # <<>> /\ mtest.ba # <<>>) => mtest.ab = mtest.ba
    /\ (mtest.ab # <<>> /\ mtest.grouped # <<>>) => mtest.ab = mtest.grouped
    /\ mtest.zero # <<>> => mtest.zero = <<mtest.t>>

\* C8's case: two different operands with no counter zero, merged in both
\* orders and grouped, and the zero merge made.
C8_Witness ==
    /\ mtest.ab # <<>> /\ mtest.ba # <<>> /\ mtest.grouped # <<>> /\ mtest.zero # <<>>
    /\ mtest.a # mtest.b
    /\ \A f \in Fields : mtest.a[f] > 0 /\ mtest.b[f] > 0 /\ mtest.t[f] > 0
    /\ \A f \in Fields : mtest.ab[1][f] = mtest.t[f] + mtest.a[f] + mtest.b[f]

\* A step of the pcap loop that delivers a packet.
PcapDelivery == mainpc = "pcap_next" /\ mainpc' = "pcap_stats" /\ pkt_header' # <<>>

\* C10 as stated: every delivered packet adds len - 14 - 4 * IHL - 8 bytes,
\* len its wire length, and counts as truncated exactly when caplen # len.
C10_PayloadFromWireLength ==
    [][PcapDelivery =>
         LET h == pkt_header'[1]
         IN /\ counters'.total_bytes - counters.total_bytes
                 = h.len - 14 - 4 * (h.ip0 % 16) - 8
            /\ counters'.truncated - counters.truncated
                 = (IF h.caplen # h.len THEN 1 ELSE 0)
      ]_vars

\* C10 amended: a delivered packet whose captured length caplen leaves room
\* for the headers (caplen > 14 and caplen - 14 >= 4 * IHL + 8) adds one
\* packet and caplen - 14 - 4 * IHL - 8 bytes, which is len - 14 - 4 * IHL - 8
\* when the packet is whole, and counts as truncated exactly when
\* caplen # len; any other delivered packet changes no counter.
C10_PayloadFromCapturedLength ==
    [][PcapDelivery =>
         LET h == pkt_header'[1]
             ihl == h.ip0 % 16
         IN IF h.caplen > 14 /\ h.caplen - 14 >= 4 * ihl + 8
            THEN /\ counters'.total_packets = counters.total_packets + 1
                 /\ counters'.packets = counters.packets + 1
                 /\ counters'.total_bytes - counters.total_bytes = h.caplen - 14 - 4 * ihl - 8
                 /\ counters'.bytes - counters.bytes = h.caplen - 14 - 4 * ihl - 8
                 /\ h.caplen = h.len
                      => counters'.total_bytes - counters.total_bytes = h.len - 14 - 4 * ihl - 8
                 /\ counters'.truncated - counters.truncated
                      = (IF h.caplen # h.len THEN 1 ELSE 0)
                 /\ counters'.errors = counters.errors
            ELSE counters' = counters
      ]_vars

\* C10's case: a whole packet of wire length 100 with IHL 5 has been counted
\* with 58 bytes, and a packet cut to 64 bytes after it with 22.
C10_Witness ==
    /\ mainpc = "pcap_stats"
    /\ pkt_header = <<[len |-> 100, caplen |-> 64, ip0 |-> 69]>>
    /\ counters.total_packets = 2
    /\ counters.total_bytes = 58 + 22
    /\ counters.truncated = 1

\* A step of the socket backend in which a read completes: the asynchronous
\* receive that packet_handler is called with, or a receive_from of the drain
\* loop.
SockReadStep == nreads' # nreads

\* C11: every read of the socket backend that succeeds, the asynchronous one
\* and those of the drain loop alike, is recorded as one packet of the
\* received length, flagged truncated exactly when that length equals
\* packet_size.
C11_TruncatedIffFull ==
    [][(SockReadStep /\ last_read'[1].ec = "ok") =>
         /\ counters'.packets = counters.packets + 1
         /\ counters'.total_packets = counters.total_packets + 1
         /\ counters'.bytes = counters.bytes + last_read'[1].n
         /\ counters'.truncated - counters.truncated
              = (IF last_read'[1].n = packet_size THEN 1 ELSE 0)
      ]_vars

\* C11's case: three datagrams in one invocation, the first read by the
\* asynchronous receive and the last by the drain loop both of packet_size
\* bytes, the one between shorter.
C11_Witness ==
    /\ last_read # <<>> /\ last_read[1].src = "drain" /\ last_read[1].n = packet_size
    /\ ncalls = 1 /\ drain_i = 2
    /\ counters.packets = 3 /\ counters.truncated = 2
    /\ counters.bytes = 2 * packet_size + 1

\* C12: while the socket backend runs, offset is a multiple of 64 and
\* offset + packet_size is at most the buffer's size,
\* max(packet_size, buffer_size): the region of the next read lies inside the
\* buffer.
C12_OffsetInsideBuffer ==
    (backend = "socket" /\ mainpc = "run")
        => /\ offset >= 0
           /\ offset % 64 = 0
           /\ offset + packet_size
                <= (IF packet_size >= buffer_size THEN packet_size ELSE buffer_size)

\* C12's case: reads of 65 and 1 bytes and a failed read have left offset at
\* 192 in a buffer of 300 bytes.
C12_Witness ==
    /\ backend = "socket" /\ mainpc = "run"
    /\ buffer_size = 300 /\ packet_size = 100
    /\ offset = 192
    /\ counters.errors > 0
    /\ last_read # <<>> /\ last_read[1].ec = "error"

\* C13: a read of the socket backend that fails with an error other than
\* would-block adds one to errors, changes no other counter and leaves offset
\* alone; the handler goes on (the drain loop takes its next turn when
\* i + 1 < poll) and returns only by enqueueing a receive, which is then the
\* only one pending.
C13_ReadErrorCountedLoopGoesOn ==
    [][/\ (SockReadStep /\ last_read'[1].ec = "error") =>
            /\ counters' = [counters EXCEPT !["errors"] = @ + 1]
            /\ offset' = offset
            /\ exit_code' = -1 /\ mainpc' = "run"
            /\ spc' \in {"drain", "rearm"}
            /\ (last_read'[1].src = "drain" /\ drain_i + 1 < poll) => spc' = "drain"
       /\ (spc # "idle" /\ spc' = "idle") => (spc = "rearm" /\ armed = 0 /\ armed' = 1)
      ]_vars

\* C13's case: the asynchronous receive and the first read of the drain loop
\* have both failed, and the loop is about to read again.
C13_Witness ==
    /\ last_read # <<>> /\ last_read[1].src = "drain" /\ last_read[1].ec = "error"
    /\ ncalls = 1 /\ spc = "drain" /\ drain_i = 1
    /\ counters.errors = 2 /\ counters.packets = 0

\* C17: a read of the drain loop is made only with fewer than poll reads of
\* the loop before it in the same invocation; a would-block result changes no
\* counter and not the offset and ends the loop; and between invocations of
\* packet_handler exactly one asynchronous receive is pending, enqueued after
\* the loop.
C17_DrainBoundedRearmOnce ==
    [][/\ (SockReadStep /\ last_read'[1].src = "drain") =>
            /\ spc = "drain" /\ drain_i < poll
            /\ drain_i' <= poll
       /\ (SockReadStep /\ last_read'[1].ec = "would_block") =>
            /\ counters' = counters
            /\ offset' = offset
            /\ spc' = "rearm"
       /\ (spc = "rearm" /\ spc' # "rearm") => (spc' = "idle" /\ armed' = armed + 1)
       /\ (mainpc' = "run" /\ spc' = "idle") => armed' = 1
       /\ (mainpc' = "run" /\ spc' # "idle") => armed' = 0
      ]_vars

\* C17's case: with poll = 2 an invocation has read one datagram in the drain
\* loop, found the socket empty at the second read, and returned with one
\* receive pending; another invocation has made both reads of the loop.
C17_Witness ==
    /\ poll = 2 /\ ncalls = 2 /\ spc = "idle" /\ armed = 1
    /\ drain_i = 2
    /\ nreads = 6
    /\ counters.total_packets = 4 /\ counters.errors = 1

\* C18 as stated: after a successful read the offset is the old offset plus
\* the received length, rounded up to a multiple of 64, unless fewer than
\* packet_size bytes remain from there to the end of the buffer, in which case
\* it is 0.
C18_ResetWhenLessThanAPacketRemains ==
    [][(SockReadStep /\ last_read'[1].ec = "ok") =>
         LET advanced == ((offset + last_read'[1].n + 63) \div 64) * 64
             size == IF packet_size >= buffer_size THEN packet_size ELSE buffer_size
         IN offset' = IF size - advanced < packet_size THEN 0 ELSE advanced
      ]_vars

\* C14: a call of pcap_next_ex that returns 0 changes no counter and the loop
\* goes on to its next turn; one that returns 1 has its packet processed and
\* the loop goes on; one that returns anything else ends the process with
\* exit code 1, after which no call is made and no counter changes.
C14_PcapStatusHandling ==
    [][/\ npolls' # npolls =>
            CASE pcap_status' = 0 ->
                   /\ counters' = counters
                   /\ mainpc' = "pcap_stats" /\ exit_code' = -1
              [] pcap_status' = 1 ->
                   /\ pkt_header' # <<>>
                   /\ counters'.total_packets - counters.total_packets
                        = (IF pkt_header'[1].caplen - 14 >= 4 * (pkt_header'[1].ip0 % 16) + 8
                           THEN 1 ELSE 0)
                   /\ mainpc' = "pcap_stats" /\ exit_code' = -1
              [] OTHER ->
                   /\ counters' = counters
                   /\ mainpc' = "exited" /\ exit_code' = 1
       /\ (backend = "pcap" /\ mainpc = "pcap_stats") => (mainpc' = "pcap_next" /\ exit_code' = -1)
       /\ exit_code = 1 => (npolls' = npolls /\ counters' = counters /\ exit_code' = 1)
      ]_vars

\* C14's case: a packet has been counted, a later call has timed out, and the
\* third call has returned the value -2, which ended the process.
C14_Witness ==
    /\ backend = "pcap" /\ pcap_status = -2 /\ npolls = 3
    /\ exit_code = 1 /\ mainpc = "exited"
    /\ exit_err = "unexpected return from pcap_next_ex"
    /\ counters.total_packets = 1 /\ counters.total_bytes = 58
    /\ clock = StartTime + 2

\* C15: in the ring-buffer and the socket backend the k-th report is made for
\* the deadline a whole k seconds after the start, never before the clock has
\* reached it, however late the ticks before it were served; the time recorded
\* as last_stats is that deadline; and the socket's timer is always set to the
\* deadline after the last one served.
C15_DeadlinesDoNotDrift ==
    [][/\ nticks' # nticks =>
            /\ nticks' = nticks + 1
            /\ now' = StartTime + nticks'
            /\ clock' >= now'
       /\ last_stats' # last_stats =>
            /\ last_stats' = StartTime + nticks'
            /\ last_stats' = now'
       /\ (backend = "socket" /\ mainpc' = "run") => expires_at' = StartTime + nticks' + 1
      ]_vars

\* C15's case: the ring-buffer backend has made three reports, for the
\* deadlines 1, 2 and 3 seconds after the start, although one of the ticks was
\* served two seconds late and the clock has passed the next deadline.
C15_Witness ==
    /\ backend = "pfpacket" /\ mainpc = "sleep"
    /\ nticks = 3
    /\ now = StartTime + 3 /\ last_stats = StartTime + 3
    /\ clock = StartTime + 5

\* C16: with reordering allowed wherever the fences and the atomic operations
\* do not forbid it, every load of a block's contents that the worker uses is
\* performed after the load of the status word that showed the block as
\* user-owned, so that it returns the contents the kernel handed over; and
\* the store of TP_STATUS_KERNEL reaches memory only when every load of the
\* block's contents has been performed.
C16_ContentReadsBetweenAcquireAndRelease ==
    /\ (SawUser /\ "store_status" \notin ord_done) =>
          /\ ord_seen.num_pkts \in {<<>>, <<mem_handed[ord_block]>>}
          /\ ord_seen.packets \in {<<>>, <<mem_handed[ord_block]>>}
    /\ "store_status" \in ord_done => ContentLoads \subseteq ord_done

\* The IPv4 frames among the first n packets of a block.
RECURSIVE IPv4Among(_, _)
IPv4Among(pkts, n) ==
    IF n = 0 THEN 0
    ELSE (IF pkts[n].h_proto = 2048 THEN 1 ELSE 0) + IPv4Among(pkts, n - 1)

\* C19: the step of the walk that processes a frame whose protocol is not
\* IPv4 changes no counter, neither the worker's local ones nor the shared
\* ones, and moves the walk on to the next packet header, or to the merge
\* after the last; what the worker has counted of a block is its IPv4 frames
\* only, with no error; and the worker's step after the merge of such a block
\* returns the block to the kernel.
C19_NonIPv4FramesSkipped ==
    [][\A w \in Threads :
         LET pkts == block_pkts[w][next_block[w]]
         IN /\ (wpc[w] = "walk" /\ hdr_i'[w] # hdr_i[w] /\ pkts[hdr_i[w] + 1].h_proto # 2048)
                 => /\ local_counters'[w] = local_counters[w]
                    /\ counters' = counters
                    /\ hdr_i'[w] = hdr_i[w] + 1
                    /\ wpc'[w] = (IF hdr_i[w] + 1 < Len(pkts) THEN "walk" ELSE "merge")
            /\ wpc[w] \in {"walk", "merge", "release"}
                 => /\ local_counters[w].packets = IPv4Among(pkts, hdr_i[w])
                    /\ local_counters[w].errors = 0
            /\ (wpc[w] = "release" /\ wpc'[w] # wpc[w])
                 => /\ block_status'[w][next_block[w]] = 0
                    /\ next_block'[w] = (next_block[w] + 1) % BlockNr
      ]_vars

\* C19's case: a block of an ARP frame and an IPv4 frame has been walked and
\* merged as one packet, and a block after it has been handed over.
C19_Witness ==
    \E w \in Threads :
        /\ wpc[w] = "release"
        /\ Len(block_pkts[w][next_block[w]]) = 2
        /\ block_pkts[w][next_block[w]][1].h_proto = ETH_P_ARP
        /\ local_counters[w].packets = 1 /\ local_counters[w].errors = 0
        /\ counters.total_packets = 1 /\ counters.errors = 0

\* C20: until the first report last_stats is the time the backend started,
\* the first report is not made before a second has passed since then, and
\* the elapsed time of the first report is the time since the start.
C20_FirstReportMeasuredFromStart ==
    /\ (mainpc \notin {"setup", "exited"} /\ nticks = 0) => last_stats = StartTime
    /\ nticks >= 1 => clock >= StartTime + 1
    /\ (nticks = 1 /\ last_stats = now) => elapsed = now - StartTime

\* Worker w is in the loop while (true) of run_thread.
InLoop(w) == wpc[w] \in {"check", "poll", "read", "walk", "merge", "release"}

\* C21: the cursor of every worker is a block of its ring and moves only to
\* the next block in cyclic order; a worker goes to wait in poll only when it
\* has found the block at its cursor kernel-owned; and with poll never failing
\* and the workers scheduled fairly, every block that is user-owned while its
\* worker is in the loop is eventually merged and returned to the kernel.
C21_CursorCyclicBlocksEventuallyReturned ==
    /\ [](\A w \in Threads : next_block[w] \in 0 .. (BlockNr - 1))
    /\ [][\A w \in Threads :
            /\ next_block'[w] # next_block[w]
                 => next_block'[w] = (next_block[w] + 1) % BlockNr
            /\ (wpc'[w] = "poll" /\ wpc[w] # "poll")
                 => ~HasUserBit(block_status[w][next_block[w]])
         ]_vars
    /\ \A w \in Threads, b \in 0 .. (BlockNr - 1) :
          (InLoop(w) /\ HasUserBit(block_status[w][b]))
              ~> (block_status[w][b] = 0 /\ merged.blocks > 0)

====
